---- MODULE Spec2Model ----
(***************************************************************************)
(* A model of the numerals library: Roman numerals (src/src/roman.rs) and  *)
(* balanced ternary (src/src/bt.rs).                                       *)
(*                                                                         *)
(* Characters are one-character strings, a text is a sequence of them, a   *)
(* Numeral is one of the strings "I" "V" "X" "L" "C" "D" "M", and a Roman  *)
(* is the record [numerals |-> <sequence of Numeral>].                     *)
(***************************************************************************)
EXTENDS Integers, Sequences, FiniteSets

VARIABLES
    pc,               \* the position of the calling program
    overflow_checks,  \* the build: TRUE with overflow checks (debug), FALSE without (release)
    number,           \* the i16 handed to Roman::from
    text,             \* the text handed to Roman::parse
    roman,            \* the Roman built, Some/None from parse, Panicked from a failed assert
    val,              \* the outcome of Roman::value
    checked,          \* the outcome of Roman::value_checked
    upper,            \* format!("{:X}", roman)
    lower,            \* format!("{:x}", roman)
    reparsed,         \* <<Roman::parse(upper), Roman::parse(lower)>>
    bt_number,        \* the i64 handed to BalancedTernary::from
    bt_input,         \* the local `input` of BalancedTernary::from
    trits,            \* the local `trits` of BalancedTernary::from
    bt,               \* the outcome of BalancedTernary::from
    bt_val            \* the outcome of BalancedTernary::value

vars == <<pc, overflow_checks, number, text, roman, val, checked, upper, lower,
          reparsed, bt_number, bt_input, trits, bt, bt_val>>

(***************************************************************************)
(* The integer type of Roman: i16.                                         *)
(***************************************************************************)
I16Min == -32768
I16Max == 32767

I16 == I16Min .. I16Max

\* Two's-complement wrap-around of an integer into i16.
WrapI16(x) == ((x - I16Min) % 65536) + I16Min

(***************************************************************************)
(* Option, and the outcomes of a call that may panic.                      *)
(***************************************************************************)
None == [some |-> FALSE]
Some(x) == [some |-> TRUE, v |-> x]

Panicked == [panic |-> TRUE]
Returned(x) == [panic |-> FALSE, v |-> x]

NotCalled == [called |-> FALSE]

(***************************************************************************)
(* Numeral                                                                 *)
(***************************************************************************)
Numeral == {"I", "V", "X", "L", "C", "D", "M"}

NumeralValue(n) ==
    CASE n = "I" -> 1
      [] n = "V" -> 5
      [] n = "X" -> 10
      [] n = "L" -> 50
      [] n = "C" -> 100
      [] n = "D" -> 500
      [] n = "M" -> 1000

ascii_upper(n) ==
    CASE n = "I" -> "I"
      [] n = "V" -> "V"
      [] n = "X" -> "X"
      [] n = "L" -> "L"
      [] n = "C" -> "C"
      [] n = "D" -> "D"
      [] n = "M" -> "M"

ascii_lower(n) ==
    CASE n = "I" -> "i"
      [] n = "V" -> "v"
      [] n = "X" -> "x"
      [] n = "L" -> "l"
      [] n = "C" -> "c"
      [] n = "D" -> "d"
      [] n = "M" -> "m"

\* A slip in the match: the lowercase letters left out.
from_char_upper_only(input) ==
    CASE input = "I" -> Some("I")
      [] input = "V" -> Some("V")
      [] input = "X" -> Some("X")
      [] input = "L" -> Some("L")
      [] input = "C" -> Some("C")
      [] input = "D" -> Some("D")
      [] input = "M" -> Some("M")
      [] OTHER -> None

from_char(input) ==
    CASE input \in {"I", "i"} -> Some("I")
      [] input \in {"V", "v"} -> Some("V")
      [] input \in {"X", "x"} -> Some("X")
      [] input \in {"L", "l"} -> Some("L")
      [] input \in {"C", "c"} -> Some("C")
      [] input \in {"D", "d"} -> Some("D")
      [] input \in {"M", "m"} -> Some("M")
      [] OTHER -> None

(***************************************************************************)
(* Roman::parse: push from_char(c)? for each character, left to right.     *)
(***************************************************************************)
RECURSIVE ParseFrom(_, _, _)
ParseFrom(input, i, numerals) ==
    IF i > Len(input) THEN Some([numerals |-> numerals])
    ELSE LET n == from_char(input[i])
         IN  IF n.some THEN ParseFrom(input, i + 1, Append(numerals, n.v))
             ELSE None

\* A slip in the loop: a character that is no numeral skipped, not refused.
ParseSkipping(input) ==
    LET kept == SelectSeq(input, LAMBDA c : from_char(c).some)
    IN  Some([numerals |-> [i \in 1 .. Len(kept) |-> from_char(kept[i]).v]])

Parse(input) == ParseFrom(input, 1, <<>>)

(***************************************************************************)
(* Roman::value and Roman::value_checked: the numerals' values, reversed.  *)
(***************************************************************************)
\* A slip in the comparison: a numeral equal to the largest seen is subtracted.
AmountToAddStrict(n, max) == IF n > max THEN n ELSE -n

\* if n >= max { n } else { -n }
AmountToAdd(n, max) == IF n >= max THEN n ELSE -n

\* A slip in the running maximum: the last value kept instead of the largest.
NextMaxLast(n, max) == n

\* if max < n { max = n; }
NextMax(n, max) == IF max < n THEN n ELSE max

\* total += amount, on i16: a panic with overflow checks, a wrap without.
AddAssign(total, amount, checks) ==
    IF total + amount \in I16 THEN Returned(total + amount)
    ELSE IF checks THEN Panicked
    ELSE Returned(WrapI16(total + amount))

\* A slip in the checked sum: the sum wrapped instead of refused.
WrappingAdd(total, amount) == Some(WrapI16(total + amount))

\* i16::checked_add
CheckedAdd(total, amount) ==
    IF total + amount \in I16 THEN Some(total + amount) ELSE None

RECURSIVE ValueFrom(_, _, _, _, _)
ValueFrom(numerals, i, total, max, checks) ==
    IF i < 1 THEN Returned(total)
    ELSE LET n == NumeralValue(numerals[i])
             t == AddAssign(total, AmountToAdd(n, max), checks)
         IN  IF t.panic THEN Panicked
             ELSE ValueFrom(numerals, i - 1, t.v, NextMax(n, max), checks)

Value(self, checks) == ValueFrom(self.numerals, Len(self.numerals), 0, 0, checks)

RECURSIVE ValueCheckedFrom(_, _, _, _)
ValueCheckedFrom(numerals, i, total, max) ==
    IF i < 1 THEN Some(total)
    ELSE LET n == NumeralValue(numerals[i])
             t == CheckedAdd(total, AmountToAdd(n, max))
         IN  IF t.some THEN ValueCheckedFrom(numerals, i - 1, t.v, NextMax(n, max))
             ELSE None

ValueChecked(self) == ValueCheckedFrom(self.numerals, Len(self.numerals), 0, 0)

(***************************************************************************)
(* fmt::LowerHex and fmt::UpperHex for Roman                               *)
(***************************************************************************)
LowerHex(self) == [i \in 1 .. Len(self.numerals) |-> ascii_lower(self.numerals[i])]

UpperHex(self) == [i \in 1 .. Len(self.numerals) |-> ascii_upper(self.numerals[i])]

(***************************************************************************)
(* From<Vec<Numeral>> and From<i16> for Roman                              *)
(***************************************************************************)
FromVec(numerals) == [numerals |-> numerals]

Pairs == << <<"C", "M">>, <<"C", "D">>,
            <<"X", "C">>, <<"X", "L">>,
            <<"I", "X">>, <<"I", "V">> >>

\* while number >= primary.value() { number -= primary.value(); numerals.push(primary); }
RECURSIVE WhilePrimary(_, _)
WhilePrimary(st, primary) ==
    IF st.number >= NumeralValue(primary)
    THEN WhilePrimary([number |-> st.number - NumeralValue(primary),
                       numerals |-> Append(st.numerals, primary)], primary)
    ELSE st

Difference(secondary, primary) == NumeralValue(primary) - NumeralValue(secondary)

\* A slip in the subtractive step: the pair pushed primary first.
IfDifferenceSwapped(st, secondary, primary) ==
    IF st.number >= Difference(secondary, primary)
    THEN [number |-> st.number - Difference(secondary, primary),
          numerals |-> st.numerals \o <<primary, secondary>>]
    ELSE st

\* if number >= difference { number -= difference; push(secondary); push(primary); }
IfDifference(st, secondary, primary) ==
    IF st.number >= Difference(secondary, primary)
    THEN [number |-> st.number - Difference(secondary, primary),
          numerals |-> st.numerals \o <<secondary, primary>>]
    ELSE st

RECURSIVE ForPairs(_, _)
ForPairs(st, k) ==
    IF k > Len(Pairs) THEN st
    ELSE ForPairs(IfDifference(WhilePrimary(st, Pairs[k][2]), Pairs[k][1], Pairs[k][2]),
                  k + 1)

\* while number > 0 { number -= 1; numerals.push(I); }
RECURSIVE WhileOnes(_)
WhileOnes(st) ==
    IF st.number > 0
    THEN WhileOnes([number |-> st.number - 1, numerals |-> Append(st.numerals, "I")])
    ELSE st

\* A slip in the assertion: zero let through.
AssertNonNegative(n) == n >= 0

\* assert!(number > 0);
AssertPositive(n) == n > 0

FromI16(n) ==
    IF ~AssertPositive(n) THEN Panicked
    ELSE Returned([numerals |->
             WhileOnes(ForPairs([number |-> n, numerals |-> <<>>], 1)).numerals])

(***************************************************************************)
(* The calling program.  Every specification starts a call sequence from   *)
(* one input and both builds; the variables a specification does not use   *)
(* keep their initial values.                                              *)
(***************************************************************************)
\* let r = Roman::from(number);
CallFromI16 ==
    /\ pc = "from_i16"
    /\ roman' = FromI16(number)
    /\ pc' = IF roman'.panic THEN "panicked" ELSE "built"
    /\ UNCHANGED <<overflow_checks, number, text, val, checked, upper, lower,
                   reparsed, bt_number, bt_input, trits, bt, bt_val>>

\* r.value(), in a program that has not called it yet
CallValue ==
    /\ pc = "built"
    /\ val = NotCalled
    /\ val' = Value(roman.v, overflow_checks)
    /\ pc' = IF val'.panic THEN "panicked" ELSE "built"
    /\ UNCHANGED <<overflow_checks, number, text, roman, checked, upper, lower,
                   reparsed, bt_number, bt_input, trits, bt, bt_val>>

\* r.value_checked(), in a program that has not called it yet
CallValueChecked ==
    /\ pc = "built"
    /\ checked = NotCalled
    /\ checked' = ValueChecked(roman.v)
    /\ UNCHANGED <<pc, overflow_checks, number, text, roman, val, upper, lower,
                   reparsed, bt_number, bt_input, trits, bt, bt_val>>

(***************************************************************************)
(* Spec: Roman::from(number) for every i16, then value and value_checked.  *)
(***************************************************************************)
Init ==
    /\ pc = "from_i16"
    /\ overflow_checks \in BOOLEAN
    /\ number \in I16
    /\ text = <<>>
    /\ roman = NotCalled
    /\ val = NotCalled
    /\ checked = NotCalled
    /\ upper = <<>>
    /\ lower = <<>>
    /\ reparsed = NotCalled
    /\ bt_number = 0
    /\ bt_input = 0
    /\ trits = <<>>
    /\ bt = NotCalled
    /\ bt_val = NotCalled

Next == CallFromI16 \/ CallValue \/ CallValueChecked

Spec == Init /\ [][Next]_vars

(***************************************************************************)
(* SpecDecode: a Roman built from a vector of numerals (From<Vec<Numeral>>)*)
(* then value and value_checked.  The vectors are every sequence of at     *)
(* most MaxSeqLen numerals, the sequences of the documentation and tests,  *)
(* and the long ones that take a total out of i16: an optional numeral,    *)
(* a run of D and a run of M, one of the two runs at most MaxMixed long.   *)
(***************************************************************************)
MaxSeqLen == 3
MaxRunM == 54
MaxRunD == 70
MaxMixed == 1

Rep(a, k) == [i \in 1 .. k |-> a]

RECURSIVE SeqsUpTo(_)
SeqsUpTo(k) ==
    IF k = 0 THEN {<<>>}
    ELSE LET shorter == SeqsUpTo(k - 1)
         IN  shorter \cup {Append(q, a) : q \in shorter, a \in Numeral}

RunLengths ==
    {jk \in (0 .. MaxRunD) \X (0 .. MaxRunM) : jk[1] <= MaxMixed \/ jk[2] <= MaxMixed}

LongSeqs ==
    {pre \o Rep("D", jk[1]) \o Rep("M", jk[2]) : pre \in SeqsUpTo(1), jk \in RunLengths}

ExampleSeqs ==
    {<<"X", "X", "V", "I", "I">>,
     <<"I", "I", "I", "I", "I", "I", "V">>}

DecodeInputs == SeqsUpTo(MaxSeqLen) \cup LongSeqs \cup ExampleSeqs

InitDecode ==
    /\ pc = "built"
    /\ overflow_checks \in BOOLEAN
    /\ number = 0
    /\ text = <<>>
    /\ roman \in {Returned(FromVec(q)) : q \in DecodeInputs}
    /\ val = NotCalled
    /\ checked = NotCalled
    /\ upper = <<>>
    /\ lower = <<>>
    /\ reparsed = NotCalled
    /\ bt_number = 0
    /\ bt_input = 0
    /\ trits = <<>>
    /\ bt = NotCalled
    /\ bt_val = NotCalled

NextDecode == CallValue \/ CallValueChecked

SpecDecode == InitDecode /\ [][NextDecode]_vars

(***************************************************************************)
(* Claims about Roman::from(i16), checked under Spec.                      *)
(***************************************************************************)
\* C1 (round trip): for every n with 1 <= n <= 32767 no call of the sequence
\* Roman::from(n), value(), value_checked() panics, value() returns n in
\* either build, and value_checked() returns Some(n).
C1_RoundTrip ==
    number \in 1 .. I16Max =>
        /\ pc # "panicked"
        /\ val # NotCalled => val = Returned(number)
        /\ checked # NotCalled => checked = Some(number)

C1_Witness ==
    /\ pc = "built"
    /\ number = I16Max
    /\ val = Returned(I16Max)
    /\ checked = Some(I16Max)

\* The standard pattern of one decimal digit d, written with the symbols for
\* one, five and ten of its place.
DigitPattern(d, one, five, ten) ==
    CASE d = 0 -> <<>>
      [] d = 1 -> <<one>>
      [] d = 2 -> <<one, one>>
      [] d = 3 -> <<one, one, one>>
      [] d = 4 -> <<one, five>>
      [] d = 5 -> <<five>>
      [] d = 6 -> <<five, one>>
      [] d = 7 -> <<five, one, one>>
      [] d = 8 -> <<five, one, one, one>>
      [] d = 9 -> <<one, ten>>

Canonical(n) ==
    [i \in 1 .. (n \div 1000) |-> "M"]
        \o DigitPattern((n \div 100) % 10, "C", "D", "M")
        \o DigitPattern((n \div 10) % 10, "X", "L", "C")
        \o DigitPattern(n % 10, "I", "V", "X")

FourInARow(q, a) ==
    \E i \in 1 .. Len(q) - 3 : \A j \in i .. i + 3 : q[j] = a

\* C2 (canonicality): for every n in 1..32767 Roman::from(n) is n \div 1000
\* times M, then the standard patterns of the hundreds, tens and units digits;
\* 4, 9, 40, 27 and 1994 give IV, IX, XL, XXVII and MCMXCIV, and no I, X or C
\* stands four times in a row.
C2_Canonical ==
    (pc = "built" /\ number \in 1 .. I16Max) =>
        /\ roman = Returned(FromVec(Canonical(number)))
        /\ \A a \in {"I", "X", "C"} : ~FourInARow(roman.v.numerals, a)
        /\ number = 4 => roman.v.numerals = <<"I", "V">>
        /\ number = 9 => roman.v.numerals = <<"I", "X">>
        /\ number = 40 => roman.v.numerals = <<"X", "L">>
        /\ number = 27 => roman.v.numerals = <<"X", "X", "V", "I", "I">>
        /\ number = 1994 => roman.v.numerals = <<"M", "C", "M", "X", "C", "I", "V">>

C2_Witness ==
    /\ pc = "built"
    /\ number = 1994
    /\ roman.v.numerals = <<"M", "C", "M", "X", "C", "I", "V">>

\* C4 (precondition): Roman::from(n) panics, and builds no Roman, exactly
\* when n <= 0.
C4_NonPositivePanics ==
    pc # "from_i16" =>
        /\ roman = Panicked <=> number <= 0
        /\ number <= 0 => pc = "panicked"
        /\ number >= 1 => (~roman.panic /\ roman.v.numerals \in Seq(Numeral))

C4_Witness ==
    /\ pc = "panicked"
    /\ number = 0
    /\ roman = Panicked

(***************************************************************************)
(* Claims about value and value_checked on any sequence, checked under     *)
(* SpecDecode.  The reference is the signed sum over unbounded integers:   *)
(* position i counts +weight when its weight is at least every weight to   *)
(* its right, -weight otherwise.                                           *)
(***************************************************************************)
SignAt(q, i) ==
    IF \A j \in i + 1 .. Len(q) : NumeralValue(q[i]) >= NumeralValue(q[j])
    THEN 1 ELSE -1

\* The signed sum of positions i..Len(q): the running total once the decode,
\* going right to left, has taken position i.
RECURSIVE SignedSumFrom(_, _)
SignedSumFrom(q, i) ==
    IF i > Len(q) THEN 0
    ELSE SignAt(q, i) * NumeralValue(q[i]) + SignedSumFrom(q, i + 1)

SignedSum(q) == SignedSumFrom(q, 1)

\* Whether the running totals of positions i..1 stay in i16, given the total
\* `right` of the positions after i.
RECURSIVE TotalsInRangeFrom(_, _, _)
TotalsInRangeFrom(q, i, right) ==
    \/ i < 1
    \/ LET t == right + SignAt(q, i) * NumeralValue(q[i])
       IN  t \in I16 /\ TotalsInRangeFrom(q, i - 1, t)

TotalsInRange(q) == TotalsInRangeFrom(q, Len(q), 0)

\* C3 (checked decode): value_checked returns None exactly when a running
\* total leaves -32768..32767, and otherwise Some of the unbounded value, which
\* value returns too; 54 M give None.
C3_CheckedDecode ==
    (pc # "from_i16" /\ checked # NotCalled) =>
        LET q == roman.v.numerals
            inrange == TotalsInRange(q)
        IN  /\ checked = None <=> ~inrange
            /\ inrange => checked = Some(SignedSum(q))
            /\ (inrange /\ val # NotCalled) => val = Returned(checked.v)
            /\ q = Rep("M", 54) => checked = None

C3_Witness ==
    /\ roman = Returned(FromVec(Rep("M", 54)))
    /\ checked = None

\* C7 (unchecked decode on overflow): whenever a running total leaves
\* -32768..32767, value panics and returns no number.
C7_ValuePanicsOnOverflow ==
    (val # NotCalled /\ ~TotalsInRange(roman.v.numerals)) => val = Panicked

\* C9 (decode of any sequence): when the running totals stay in range value
\* returns the signed sum; [] gives 0, IV 4, VI 6 and IIIIIIV -1.
C9_ValueIsSignedSum ==
    (val # NotCalled /\ TotalsInRange(roman.v.numerals)) =>
        LET q == roman.v.numerals
        IN  /\ val = Returned(SignedSum(q))
            /\ q = <<>> => val.v = 0
            /\ q = <<"I", "V">> => val.v = 4
            /\ q = <<"V", "I">> => val.v = 6
            /\ q = <<"I", "I", "I", "I", "I", "I", "V">> => val.v = -1

C9_Witness ==
    /\ roman = Returned(FromVec(<<"I", "I", "I", "I", "I", "I", "V">>))
    /\ val = Returned(-1)

(***************************************************************************)
(* SpecParse: Roman::parse(text), then both renderings of the Roman parsed *)
(* and the parse of each rendering.  The texts are every text of at most   *)
(* MaxTextLen characters over the fourteen letters that are numerals and   *)
(* three characters that are not, and the texts of the documentation.      *)
(***************************************************************************)
MaxTextLen == 3

UpperLetters == {"I", "V", "X", "L", "C", "D", "M"}
LowerLetters == {"i", "v", "x", "l", "c", "d", "m"}
OtherChars == {"A", "1", " "}
Chars == UpperLetters \cup LowerLetters \cup OtherChars

RECURSIVE TextsUpTo(_)
TextsUpTo(k) ==
    IF k = 0 THEN {<<>>}
    ELSE LET shorter == TextsUpTo(k - 1)
         IN  shorter \cup {Append(t, c) : t \in shorter, c \in Chars}

ExampleTexts ==
    {<<"X", "X", "V", "I", "I">>,
     <<"x", "x", "v", "i", "i">>,
     <<"X", "I", "I", "A">>}

InitParse ==
    /\ pc = "parse"
    /\ overflow_checks \in BOOLEAN
    /\ number = 0
    /\ text \in TextsUpTo(MaxTextLen) \cup ExampleTexts
    /\ roman = NotCalled
    /\ val = NotCalled
    /\ checked = NotCalled
    /\ upper = <<>>
    /\ lower = <<>>
    /\ reparsed = NotCalled
    /\ bt_number = 0
    /\ bt_input = 0
    /\ trits = <<>>
    /\ bt = NotCalled
    /\ bt_val = NotCalled

\* let r = Roman::parse(text);
CallParse ==
    /\ pc = "parse"
    /\ roman' = Parse(text)
    /\ pc' = IF roman'.some THEN "parsed" ELSE "rejected"
    /\ UNCHANGED <<overflow_checks, number, text, val, checked, upper, lower,
                   reparsed, bt_number, bt_input, trits, bt, bt_val>>

\* let upper = format!("{:X}", r); let lower = format!("{:x}", r);
CallFormat ==
    /\ pc = "parsed"
    /\ upper' = UpperHex(roman.v)
    /\ lower' = LowerHex(roman.v)
    /\ pc' = "formatted"
    /\ UNCHANGED <<overflow_checks, number, text, roman, val, checked,
                   reparsed, bt_number, bt_input, trits, bt, bt_val>>

\* (Roman::parse(&upper), Roman::parse(&lower))
CallReparse ==
    /\ pc = "formatted"
    /\ reparsed' = <<Parse(upper), Parse(lower)>>
    /\ pc' = "reparsed"
    /\ UNCHANGED <<overflow_checks, number, text, roman, val, checked, upper,
                   lower, bt_number, bt_input, trits, bt, bt_val>>

NextParse == CallParse \/ CallFormat \/ CallReparse

SpecParse == InitParse /\ [][NextParse]_vars

(***************************************************************************)
(* Claims about Roman::parse and the renderings, checked under SpecParse.  *)
(***************************************************************************)
Letters == UpperLetters \cup LowerLetters

ToUpperChar(c) ==
    CASE c = "i" -> "I"
      [] c = "v" -> "V"
      [] c = "x" -> "X"
      [] c = "l" -> "L"
      [] c = "c" -> "C"
      [] c = "d" -> "D"
      [] c = "m" -> "M"
      [] OTHER -> c

ToLowerChar(c) ==
    CASE c = "I" -> "i"
      [] c = "V" -> "v"
      [] c = "X" -> "x"
      [] c = "L" -> "l"
      [] c = "C" -> "c"
      [] c = "D" -> "d"
      [] c = "M" -> "m"
      [] OTHER -> c

BadPositions(t) == {i \in 1 .. Len(t) : t[i] \notin Letters}

FirstBad(t) == CHOOSE i \in BadPositions(t) : \A j \in BadPositions(t) : i <= j

\* C5 as stated (parse failure): when the text has a character that maps to no
\* symbol, parse fails and the failure carries the position of the first such
\* character.
C5_FailureCarriesPosition ==
    (pc # "parse" /\ BadPositions(text) # {}) =>
        /\ ~roman.some
        /\ "at" \in DOMAIN roman
        /\ roman.at = FirstBad(text)

\* C5 as amended: parse returns None, and nothing else, exactly when the text
\* has a character that maps to no symbol: the failure holds neither a position
\* nor a partial sequence, and nothing is rendered or parsed after it.
C5_FailureIsNone ==
    pc # "parse" =>
        /\ BadPositions(text) # {} <=> roman = None
        /\ BadPositions(text) # {} => (pc = "rejected" /\ DOMAIN roman = {"some"})
        /\ text = <<"X", "I", "I", "A">> => roman = None

C5_Witness ==
    /\ pc = "rejected"
    /\ text = <<"X", "I", "I", "A">>
    /\ roman = None

\* C6 (parse/render round trip): a text of the letters I V X L C D M in either
\* case parses to one symbol per character in order; the uppercase rendering is
\* the text uppercased, the lowercase rendering the text lowercased, and each
\* rendering parses back to the same Roman; "xxvii" and "XXVII" parse alike.
C6_ParseRenderRoundTrip ==
    BadPositions(text) = {} =>
        /\ pc # "parse" =>
              /\ roman = Some(FromVec([i \in 1 .. Len(text) |-> ToUpperChar(text[i])]))
              /\ text \in {<<"X", "X", "V", "I", "I">>, <<"x", "x", "v", "i", "i">>}
                    => roman = Some(FromVec(<<"X", "X", "V", "I", "I">>))
              /\ text = <<>> => roman = Some(FromVec(<<>>))
        /\ pc \in {"formatted", "reparsed"} =>
              /\ upper = [i \in 1 .. Len(text) |-> ToUpperChar(text[i])]
              /\ lower = [i \in 1 .. Len(text) |-> ToLowerChar(text[i])]
        /\ pc = "reparsed" => reparsed = <<roman, roman>>

C6_Witness ==
    /\ pc = "reparsed"
    /\ text = <<"x", "x", "v", "i", "i">>
    /\ upper = <<"X", "X", "V", "I", "I">>
    /\ lower = text
    /\ reparsed = <<roman, roman>>

(***************************************************************************)
(* Balanced ternary (src/src/bt.rs).  A Trit is one of "Minus", "Zero",    *)
(* "Plus"; a BalancedTernary is the record [trits |-> <sequence of Trit>]. *)
(***************************************************************************)
Trit == {"Minus", "Zero", "Plus"}

TritValue(t) ==
    CASE t = "Minus" -> -1
      [] t = "Zero" -> 0
      [] t = "Plus" -> 1

\* Rust's / on integers: the quotient truncated toward zero.
DivI64(a, b) == IF a >= 0 THEN a \div b ELSE -((-a) \div b)

\* A slip in the remainder: the non-negative (Euclidean) one.
RemEuclid(a, b) == a % b

\* Rust's % on integers: the remainder with the sign of the dividend.
RemI64(a, b) == IF a >= 0 THEN a % b ELSE -((-a) % b)

\* A slip in the third arm: the carry `input += 1` left out.
MinusArmNoCarry(input) == DivI64(input, 3)

\* input += 1; input /= 3;
MinusArmInput(input) == DivI64(input + 1, 3)

Reverse(q) == [i \in 1 .. Len(q) |-> q[Len(q) + 1 - i]]

(***************************************************************************)
(* The i64 of BalancedTernary::value.  TLC's integers are 32 bits wide, so *)
(* the i64 x is held as three limbs <<a, b, c>>, x = a*2^48 + b*2^24 + c,  *)
(* with b and c in 0 .. 2^24 - 1 and the top limb a a signed 16-bit number *)
(* (in I16).  An operation first gives the exact result, whose top limb    *)
(* may have left I16: that is the overflow of the i64.                     *)
(***************************************************************************)
Limb == 4096 * 4096

\* An integer literal or a trit's value, widened to i64.
I64Of(n) == <<(n \div Limb) \div Limb, (n \div Limb) % Limb, n % Limb>>

\* The exact x * k, for a small k >= 0.
MulExact(x, k) ==
    LET c == x[3] * k
        b == x[2] * k + c \div Limb
        a == x[1] * k + b \div Limb
    IN  <<a, b % Limb, c % Limb>>

\* The exact x + t, for a small t.
AddExact(x, t) ==
    LET c == x[3] + t
        b == x[2] + c \div Limb
        a == x[1] + b \div Limb
    IN  <<a, b % Limb, c % Limb>>

\* The outcome of an i64 operation whose exact result is r: a panic on
\* overflow with overflow checks, the result wrapped to 64 bits without.
I64Outcome(r, checks) ==
    IF r[1] \in I16 THEN Returned(r)
    ELSE IF checks THEN Panicked
    ELSE Returned(<<WrapI16(r[1]), r[2], r[3]>>)

\* self.trits.iter().fold(0, |sum, trit| sum * 3 + trit.value()): the product
\* first, then the sum, each an i64 operation of its own.
RECURSIVE Fold(_, _, _, _)
Fold(q, i, sum, checks) ==
    IF i > Len(q) THEN Returned(sum)
    ELSE LET product == I64Outcome(MulExact(sum, 3), checks)
         IN  IF product.panic THEN Panicked
             ELSE LET next == I64Outcome(AddExact(product.v, TritValue(q[i])), checks)
                  IN  IF next.panic THEN Panicked
                      ELSE Fold(q, i + 1, next.v, checks)

BTValue(self, checks) == Fold(self.trits, 1, I64Of(0), checks)

TritFromChar(input) ==
    CASE input = "-" -> Some("Minus")
      [] input = "0" -> Some("Zero")
      [] input = "+" -> Some("Plus")
      [] OTHER -> None

\* BalancedTernary::parse: push each character's trit, None at the first
\* character that has none.
RECURSIVE BTParseFrom(_, _, _)
BTParseFrom(input, i, ts) ==
    IF i > Len(input) THEN Some([trits |-> ts])
    ELSE LET t == TritFromChar(input[i])
         IN  IF t.some THEN BTParseFrom(input, i + 1, Append(ts, t.v))
             ELSE None

BTParse(input) == BTParseFrom(input, 1, <<>>)

(***************************************************************************)
(* SpecBT: BalancedTernary::from(bt_number), one action per turn of its    *)
(* loop, then value.  The inputs are -MaxBTNegative .. MaxBT.              *)
(***************************************************************************)
MaxBT == 4320
MaxBTNegative == 4320

InitBT ==
    /\ pc = "bt_loop"
    /\ overflow_checks \in BOOLEAN
    /\ number = 0
    /\ text = <<>>
    /\ roman = NotCalled
    /\ val = NotCalled
    /\ checked = NotCalled
    /\ upper = <<>>
    /\ lower = <<>>
    /\ reparsed = NotCalled
    /\ bt_number \in -MaxBTNegative .. MaxBT
    /\ bt_input = bt_number
    /\ trits = <<>>
    /\ bt = NotCalled
    /\ bt_val = NotCalled

\* 0 => { trits.push(Zero); input /= 3; }
ArmZero ==
    /\ pc = "bt_loop"
    /\ bt_input # 0
    /\ RemI64(bt_input, 3) = 0
    /\ trits' = Append(trits, "Zero")
    /\ bt_input' = DivI64(bt_input, 3)
    /\ UNCHANGED <<pc, overflow_checks, number, text, roman, val, checked, upper,
                   lower, reparsed, bt_number, bt, bt_val>>

\* 1 => { trits.push(Plus); input /= 3; }
ArmPlus ==
    /\ pc = "bt_loop"
    /\ bt_input # 0
    /\ RemI64(bt_input, 3) = 1
    /\ trits' = Append(trits, "Plus")
    /\ bt_input' = DivI64(bt_input, 3)
    /\ UNCHANGED <<pc, overflow_checks, number, text, roman, val, checked, upper,
                   lower, reparsed, bt_number, bt, bt_val>>

\* 2 => { trits.push(Minus); input += 1; input /= 3; }
ArmMinus ==
    /\ pc = "bt_loop"
    /\ bt_input # 0
    /\ RemI64(bt_input, 3) = 2
    /\ trits' = Append(trits, "Minus")
    /\ bt_input' = MinusArmInput(bt_input)
    /\ UNCHANGED <<pc, overflow_checks, number, text, roman, val, checked, upper,
                   lower, reparsed, bt_number, bt, bt_val>>

\* _ => unreachable!(): a panic, the vector dropped with the call
ArmUnreachable ==
    /\ pc = "bt_loop"
    /\ bt_input # 0
    /\ RemI64(bt_input, 3) \notin {0, 1, 2}
    /\ bt' = Panicked
    /\ pc' = "panicked"
    /\ UNCHANGED <<overflow_checks, number, text, roman, val, checked, upper,
                   lower, reparsed, bt_number, bt_input, trits, bt_val>>

\* the loop left: trits.reverse(); Self { trits }
LoopExit ==
    /\ pc = "bt_loop"
    /\ bt_input = 0
    /\ bt' = Returned([trits |-> Reverse(trits)])
    /\ pc' = "bt_built"
    /\ UNCHANGED <<overflow_checks, number, text, roman, val, checked, upper,
                   lower, reparsed, bt_number, bt_input, trits, bt_val>>

\* b.value()
CallBTValue ==
    /\ pc = "bt_built"
    /\ bt_val' = BTValue(bt.v, overflow_checks)
    /\ pc' = IF bt_val'.panic THEN "panicked" ELSE "bt_valued"
    /\ UNCHANGED <<overflow_checks, number, text, roman, val, checked, upper,
                   lower, reparsed, bt_number, bt_input, trits, bt>>

NextBT == ArmZero \/ ArmPlus \/ ArmMinus \/ ArmUnreachable \/ LoopExit \/ CallBTValue

SpecBT == InitBT /\ [][NextBT]_vars

(***************************************************************************)
(* SpecBTParse: BalancedTernary::parse(text), then value.  The texts are   *)
(* every text of at most MaxBTTextLen characters over "-", "0", "+" and a  *)
(* character that is no trit, and the long ones that take the fold out of  *)
(* i64: an optional trit and a run of one trit, at most MaxTrits long.     *)
(***************************************************************************)
MaxBTTextLen == 3
MaxTrits == 41

TritChars == {"-", "0", "+"}
BTChars == TritChars \cup {"x"}

RECURSIVE BTTextsUpTo(_)
BTTextsUpTo(k) ==
    IF k = 0 THEN {<<>>}
    ELSE LET shorter == BTTextsUpTo(k - 1)
         IN  shorter \cup {Append(t, c) : t \in shorter, c \in BTChars}

LongBTTexts ==
    {pre \o [i \in 1 .. k |-> c] :
        pre \in {<<>>} \cup {<<d>> : d \in TritChars},
        c \in TritChars,
        k \in 0 .. MaxTrits}

InitBTParse ==
    /\ pc = "bt_parse"
    /\ overflow_checks \in BOOLEAN
    /\ number = 0
    /\ text \in BTTextsUpTo(MaxBTTextLen) \cup LongBTTexts
    /\ roman = NotCalled
    /\ val = NotCalled
    /\ checked = NotCalled
    /\ upper = <<>>
    /\ lower = <<>>
    /\ reparsed = NotCalled
    /\ bt_number = 0
    /\ bt_input = 0
    /\ trits = <<>>
    /\ bt = NotCalled
    /\ bt_val = NotCalled

\* let b = BalancedTernary::parse(text);
CallBTParse ==
    /\ pc = "bt_parse"
    /\ bt' = BTParse(text)
    /\ pc' = IF bt'.some THEN "bt_built" ELSE "rejected"
    /\ UNCHANGED <<overflow_checks, number, text, roman, val, checked, upper,
                   lower, reparsed, bt_number, bt_input, trits, bt_val>>

NextBTParse == CallBTParse \/ CallBTValue

SpecBTParse == InitBTParse /\ [][NextBTParse]_vars

(***************************************************************************)
(* Claims about balanced ternary, checked under SpecBT.                    *)
(***************************************************************************)
RECURSIVE Pow3(_)
Pow3(k) == IF k = 0 THEN 1 ELSE 3 * Pow3(k - 1)

\* The integer an i64 of the model stands for, when it is small enough for
\* the integers of the checker.
IntOfI64(x) == (x[1] * Limb + x[2]) * Limb + x[3]

\* C8 (round trip): for every i >= 0 of the inputs BalancedTernary::from(i)
\* ends (the loop never panics, and the trits pushed stay within the number of
\* balanced-ternary digits of i), value gives i back, and from(0) has no trits.
C8_BTRoundTrip ==
    bt_number >= 0 =>
        /\ pc # "panicked"
        /\ Len(trits) >= 1 => Pow3(Len(trits) - 1) < 2 * bt_number
        /\ pc = "bt_loop" => ENABLED NextBT
        /\ pc = "bt_valued" => (~bt_val.panic /\ IntOfI64(bt_val.v) = bt_number)
        /\ (pc # "bt_loop" /\ bt_number = 0) => bt = Returned([trits |-> <<>>])

C8_Witness ==
    /\ pc = "bt_valued"
    /\ bt_number = MaxBT
    /\ ~bt_val.panic
    /\ IntOfI64(bt_val.v) = MaxBT

\* C10 (negative input): for every n < 0 BalancedTernary::from(n) builds
\* nothing: the loop runs while the remainder is 0 and panics in the arm
\* marked unreachable at the first remainder of -1 or -2.
C10_NegativePanics ==
    bt_number < 0 =>
        /\ pc \in {"bt_loop", "panicked"}
        /\ pc = "bt_loop" => (bt = NotCalled /\ bt_input < 0 /\ ENABLED NextBT)
        /\ pc = "bt_loop" => \A i \in 1 .. Len(trits) : trits[i] = "Zero"
        /\ pc = "bt_loop" => bt_input * Pow3(Len(trits)) = bt_number
        /\ pc = "panicked" => (bt = Panicked /\ bt_input < 0 /\ (-bt_input) % 3 \in {1, 2})

C10_Witness ==
    /\ pc = "panicked"
    /\ bt_number = -9
    /\ bt_input = -1
    /\ bt = Panicked

====
